---- MODULE Spec2Model ----
(***************************************************************************)
(* A model of src/src/rpc.js: the postMessage RPC of boruca-messaging.     *)
(*                                                                         *)
(*   RPC.Client   the handshake: a listener, a retry timer, a timeout      *)
(*   RPC._Client  the client proxy: stubs, the _waiting table, _receive    *)
(*   RPC._Server  the dispatcher: the whitelist, _receive, _replyTo        *)
(*                                                                         *)
(* JavaScript values are records tagged by k.  Windows and origins are     *)
(* strings.  A message event is [source, origin, data].                    *)
(***************************************************************************)
EXTENDS Bags, FiniteSets, Integers, Sequences, TLC

VARIABLES
    heap,       \* array reference -> contents (the arrays holding whitelists)
    srv,        \* server id -> the dispatcher built by RPC.Server
    async,      \* promises returned by service methods, not yet settled
    hookCount,  \* how often onConnected has run for a handshake of the client window
    toServer,   \* message events in flight to the target window
    toClient,   \* message events in flight to the client window
    conn,       \* connector id -> the state of one RPC.Client() call
    proxy,      \* connector id -> the Client instance of that call
    waiting,    \* connector id -> the _waiting map: id -> call slot
    calls,      \* call slot -> the unsettled promise _invoke returned, if any
    issued,     \* the ids Random.getRandomId() has returned
    listeners,  \* the message listeners of the client window, in the order added
    dispatch,   \* the message event the client window is dispatching: the
                \* listeners that have not taken it yet
    served,     \* request id -> what the service did for the client window's last
                \* request of that id, until a message of that id reaches the client
    ev          \* what the last step did

vars == <<heap, srv, async, hookCount, toServer, toClient, conn, proxy, waiting, calls,
          issued, listeners, dispatch, served, ev>>

srvVars == <<heap, srv, async, hookCount, served>>
cliVars == <<conn, proxy, waiting, calls, issued, listeners, dispatch>>
chanVars == <<toServer, toClient>>

-----------------------------------------------------------------------------
(* Bounds of the model. *)

MaxId == 1
MaxAsync == 1
MaxHook == 2
MaxInFlight == 1
MaxCalls == 2
MaxSends == 2

-----------------------------------------------------------------------------
(* JavaScript values. *)

Undef == [k |-> "undefined"]
Null == [k |-> "null"]
Str(s) == [k |-> "string", s |-> s]
Arr(items) == [k |-> "array", items |-> items]
Names(names) == [k |-> "names", names |-> names]
ErrorObj(m, c) == [k |-> "Error", message |-> Str(m), stack |-> Str("trace"), code |-> c]
Obj(m, st, c) == [k |-> "object", message |-> m, stack |-> st, code |-> c]
Identity(w, o) == [k |-> "identity", callingWindow |-> w, callingOrigin |-> o]

Nullish(v) == v.k \in {"undefined", "null"}

\* ToBoolean
Truthy(v) ==
    CASE v.k \in {"undefined", "null"} -> FALSE
      [] v.k = "string" -> v.s # ""
      [] OTHER -> TRUE

\* v[p] for a non-nullish v: a property the value does not have is undefined
Get(v, p) == IF p \in DOMAIN v THEN v[p] ELSE Undef

\* ToString, as new Error(message) applies it to a message that is not
\* undefined and as this[functionName] applies it to a property key; of an
\* array it is join(","), where a null or undefined element gives ""
RECURSIVE ToStr(_)
RECURSIVE Join(_, _)
Join(items, n) ==
    IF n = 0 THEN ""
    ELSE (IF n = 1 THEN "" ELSE Join(items, n - 1) \o ",")
            \o (IF Nullish(items[n]) THEN "" ELSE ToStr(items[n]))
ToStr(v) ==
    CASE v.k = "string" -> v.s
      [] v.k = "null" -> "null"
      [] v.k = "undefined" -> "undefined"
      [] v.k = "Error" -> IF v.message.s = "" THEN "Error" ELSE "Error: " \o v.message.s
      [] v.k = "array" -> Join(v.items, Len(v.items))
      [] v.k = "names" -> Join([i \in DOMAIN v.names |-> Str(v.names[i])], Len(v.names))
      [] OTHER -> "[object Object]"

\* the structured clone postMessage makes: of an Error it keeps name, message
\* and stack and drops own properties such as code
Clone(v) ==
    CASE v.k = "Error" -> [v EXCEPT !.code = Undef]
      [] v.k = "object" ->
            [v EXCEPT !.message = IF v.message.k = "Error"
                                  THEN [v.message EXCEPT !.code = Undef]
                                  ELSE v.message]
      [] OTHER -> v

-----------------------------------------------------------------------------
(* Windows, origins, names. *)

ClientWin == "client"
TargetWin == "target"
EvilWin == "evil"
ThirdWin == "third"
ClientOrigin == "https://app"
TargetOriginX == "https://x"
EvilOrigin == "https://evil"
ThirdOrigin == "https://third"
Wildcard == "*"

Handshake == "getRpcInterface"
SvcName == "Svc"
OtherName == "Other"

Ids == 0..MaxId

\* the methods Reflection.userFunctions lists for the service class
UserFunctions == <<"ping", "secret">>
ClassMethods == {UserFunctions[i] : i \in DOMAIN UserFunctions}

\* the explicit whitelists a caller of RPC.Server passes
ListNames == {"ping", "ghost", "getRpcInterface"}
ExplicitLists ==
    {<<>>} \cup {<<a>> : a \in ListNames}
           \cup {l \in {<<a, b>> : a \in ListNames, b \in ListNames} : l[1] # l[2]}

Commands == {"ping", "ghost", "secret", Handshake}

ArgLists == {Undef, Arr(<<Str("a"), Str("b")>>)}

\* what a service method does when it is called: the service is the caller's
\* class, so its behaviour is an input
RetVals == {Str("pong")}
Thrown == {ErrorObj("boom", Str("E1")), ErrorObj("", Undef), Str("oops"), Null}
Outcomes == [kind : {"return"}, v : RetVals] \cup [kind : {"throw"}, v : Thrown]
                \cup {[kind |-> "promise", v |-> Undef]}
\* how a promise returned by a service method settles
Settlements == [kind : {"resolve"}, v : RetVals] \cup [kind : {"reject"}, v : Thrown]

-----------------------------------------------------------------------------
(* The event loop. *)

\* no message event is being dispatched in the client window
Idle == [msg |-> Undef, todo |-> <<>>, woke |-> FALSE]

\* a task (a timer callback, a message event, a step of the target window)
\* starts only when the task before it has ended
Quiet == dispatch.todo = <<>>

\* the code that called RPC.Client or a stub runs as a task of its own, or,
\* when a listener has settled a promise it awaits, in the microtask
\* checkpoint after that listener and before the next listener of the event
CallerTurn == Quiet \/ dispatch.woke

-----------------------------------------------------------------------------
(* RPC._Server: the whitelist. *)

Servers == {1, 2}
\* the dispatcher that listens in the target window; the other one is built
\* in a second frame that may share the caller's array
Dispatcher == 1

UserRef == "user"
OwnRef(s) == IF s = 1 THEN "own1" ELSE "own2"
Refs == {UserRef, "own1", "own2"}

\* lines 208-218: the array that becomes Server.prototype._rpcInterface, and
\* its contents before the handshake name is pushed
WhitelistRef(s, explicit) == IF explicit THEN UserRef ELSE OwnRef(s)
WhitelistBase(s, explicit) == IF explicit THEN heap[UserRef] ELSE UserFunctions

\* line 220
PushHandshake(list) == Append(list, Handshake)

Whitelist(s) == heap[srv[s].ref]

Includes(list, x) == \E i \in DOMAIN list : list[i] = x

\* RPC.Server(clazz, useAccessControl, rpcInterface)
BuildServer(s, explicit, ac) ==
    /\ Quiet
    /\ srv[s].state = "none"
    /\ heap' = [heap EXCEPT ![WhitelistRef(s, explicit)] =
                                PushHandshake(WhitelistBase(s, explicit))]
    /\ srv' = [srv EXCEPT ![s] = [state |-> "open", ref |-> WhitelistRef(s, explicit),
                                  ac |-> ac, listening |-> TRUE, closeCalled |-> FALSE,
                                  given |-> WhitelistBase(s, explicit)]]
    /\ ev' = [op |-> "build", server |-> s, explicit |-> explicit]
    /\ UNCHANGED <<async, hookCount, served, toServer, toClient, cliVars>>

\* removeEventListener(type, f) removes the listener only when f is the
\* function that was added; Function.prototype.bind returns a new function
\* on every call
RemoveListener(listening, sameFunction) == IF sameFunction THEN FALSE ELSE listening

\* Server.close, lines 156-158: it passes a fresh this._receive.bind(this)
SrvCloseListening(s) == RemoveListener(srv[s].listening, FALSE)

SrvClose(s) ==
    /\ Quiet
    /\ srv[s].state = "open"
    /\ ~srv[s].closeCalled
    /\ srv' = [srv EXCEPT ![s].listening = SrvCloseListening(s), ![s].closeCalled = TRUE]
    /\ ev' = [op |-> "srvClose", server |-> s]
    /\ UNCHANGED <<heap, async, hookCount, served, toServer, toClient, cliVars>>

-----------------------------------------------------------------------------
(* RPC._Server: _receive, _replyTo, _invoke. *)

SrvName(s) == SvcName

NameMatchesAny(s, m) == TRUE

\* line 166
NameMatches(s, m) == m.data.interfaceName = SrvName(s)

WhitelistedIfMethod(s, command) == command \in ClassMethods \cup {Handshake}

\* line 167
Whitelisted(s, command) == Includes(Whitelist(s), command)

\* line 169: message.data.args || []
RequestArgs(m) == IF Truthy(m.data.args) THEN m.data.args.items ELSE <<>>

CallArgsAllCommands(s, m) ==
    IF srv[s].ac
    THEN <<Identity(m.source, m.origin)>> \o RequestArgs(m)
    ELSE RequestArgs(m)

\* lines 171-174
CallArgs(s, m) ==
    IF srv[s].ac /\ m.data.command # Handshake
    THEN <<Identity(m.source, m.origin)>> \o RequestArgs(m)
    ELSE RequestArgs(m)

\* _replyTo posting with the target origin '*'
ReplyToAnyOrigin(s, m, status, result) ==
    [to |-> m.source, toOrigin |-> Wildcard,
     data |-> [status |-> status, result |-> Clone(result),
               interfaceName |-> SrvName(s), id |-> m.data.id]]

\* lines 160-162: the reply, and the window and origin it is posted to
ReplyTo(s, m, status, result) ==
    [to |-> m.source, toOrigin |-> m.origin,
     data |-> [status |-> status, result |-> Clone(result),
               interfaceName |-> SrvName(s), id |-> m.data.id]]

\* lines 193 and 199, for a thrown value that is not null or undefined
ErrPayload(e) ==
    IF Truthy(Get(e, "message"))
    THEN Obj(Get(e, "message"), Get(e, "stack"), Get(e, "code"))
    ELSE Obj(e, Undef, Undef)

\* what the promise reactions of lines 191-193 read of the message they close over
Captured(m) == [source |-> m.source, origin |-> m.origin, data |-> [id |-> m.data.id]]

Eff(invoked, sent, pend, escaped, hook) ==
    [invoked |-> invoked, sent |-> sent, pend |-> pend, escaped |-> escaped, hook |-> hook]

NoEffect == Eff(<<>>, <<>>, EmptyBag, FALSE, 0)

\* the catch handlers of lines 192 and 197: reading e.message of null or
\* undefined throws a TypeError out of the handler, and no reply is sent
ErrorReply(s, m, e, invoked) ==
    IF Nullish(e)
    THEN Eff(invoked, <<>>, EmptyBag, TRUE, 0)
    ELSE Eff(invoked, <<ReplyTo(s, m, "error", ErrPayload(e))>>, EmptyBag, FALSE, 0)

UnknownCommand == ErrorObj("Unknown command", Undef)
NotAFunction == ErrorObj("Cannot read properties of undefined (reading 'apply')", Undef)

\* lines 164-201, with out the behaviour of the service method, if one is called
SrvReceive(s, m, out) ==
    LET command == m.data.command
        call == [command |-> command, args |-> CallArgs(s, m)]
    IN  IF ~NameMatches(s, m) THEN NoEffect
        ELSE IF ~Whitelisted(s, command) THEN ErrorReply(s, m, UnknownCommand, <<>>)
        ELSE IF command = Handshake
             THEN Eff(<<call>>, <<ReplyTo(s, m, "OK", Names(Whitelist(s)))>>, EmptyBag, FALSE, 1)
        ELSE IF command \notin ClassMethods THEN ErrorReply(s, m, NotAFunction, <<>>)
        ELSE CASE out.kind = "return" ->
                    Eff(<<call>>, <<ReplyTo(s, m, "OK", out.v)>>, EmptyBag, FALSE, 0)
               [] out.kind = "throw" -> ErrorReply(s, m, out.v, <<call>>)
               [] OTHER ->
                    Eff(<<call>>, <<>>, SetToBag({[server |-> s, msg |-> Captured(m)]}),
                        FALSE, 0)

\* lines 190-193: the reactions to the promise a service method returned
SrvSettle(p, out) ==
    IF out.kind = "resolve"
    THEN Eff(<<>>, <<ReplyTo(p.server, p.msg, "OK", out.v)>>, EmptyBag, FALSE, 0)
    ELSE ErrorReply(p.server, p.msg, out.v, <<>>)

\* postMessage(data, targetOrigin) on a window: the event the window sees, if
\* the window is the client's and the target origin is its origin
Arrives(r) == r.to = ClientWin /\ r.toOrigin = ClientOrigin
Event(r) == [source |-> TargetWin, origin |-> TargetOriginX, data |-> r.data]
Posted(sent) == SetToBag({Event(sent[i]) : i \in {j \in DOMAIN sent : Arrives(sent[j])}})

-----------------------------------------------------------------------------
(* The dispatcher's side of the channel. *)

\* whether the request makes the dispatcher call a method of the service class
CallsService(s, m) ==
    /\ srv[s].listening
    /\ NameMatches(s, m)
    /\ Whitelisted(s, m.data.command)
    /\ m.data.command \in ClassMethods

NoOutcome == [kind |-> "none", v |-> Undef]
OutcomesFor(m) == IF CallsService(Dispatcher, m) THEN Outcomes ELSE {NoOutcome}

\* a message event in the target window: the listening dispatcher handles it
ServerOnMessage(m, out, op) ==
    LET s == Dispatcher
        eff == IF srv[s].listening THEN SrvReceive(s, m, out) ELSE NoEffect
        hook == IF m.source = ClientWin THEN eff.hook ELSE 0
    IN  /\ Quiet
        /\ hookCount + hook <= MaxHook
        /\ BagCardinality(async (+) eff.pend) <= MaxAsync
        /\ BagCardinality(toClient (+) Posted(eff.sent)) <= MaxInFlight
        /\ hookCount' = hookCount + hook
        /\ async' = async (+) eff.pend
        /\ toClient' = toClient (+) Posted(eff.sent)
        /\ served' = IF m.source = ClientWin
                      THEN [served EXCEPT ![m.data.id] = out] ELSE served
        /\ ev' = [op |-> op, msg |-> m, outcome |-> out, invoked |-> eff.invoked,
                  sent |-> eff.sent, escaped |-> eff.escaped, hook |-> eff.hook]
        /\ UNCHANGED <<heap, srv, cliVars>>

\* a request of the modelled client arrives
DeliverRequest ==
    \E m \in BagToSet(toServer) : \E out \in OutcomesFor(m) :
        /\ ServerOnMessage(m, out, "request")
        /\ toServer' = toServer (-) SetToBag({m})

\* any other window may post any request to the target window
EnvSenders == {[source |-> EvilWin, origin |-> EvilOrigin],
               [source |-> ThirdWin, origin |-> ThirdOrigin]}
EnvRequests ==
    {[source |-> w.source, origin |-> w.origin, data |-> d] :
        w \in EnvSenders,
        d \in [command : Commands, interfaceName : {SvcName},
               args : ArgLists, id : Ids]
            \cup [command : {"ping", Handshake}, interfaceName : {OtherName},
                  args : {Undef}, id : Ids]}

EnvRequest ==
    \E m \in EnvRequests : \E out \in OutcomesFor(m) :
        /\ ServerOnMessage(m, out, "request")
        /\ UNCHANGED toServer

\* a promise returned by a service method settles
AsyncSettle ==
    \E p \in BagToSet(async) : \E out \in Settlements :
        LET eff == SrvSettle(p, out)
        IN  /\ Quiet
            /\ BagCardinality(toClient (+) Posted(eff.sent)) <= MaxInFlight
            /\ async' = async (-) SetToBag({p})
            /\ toClient' = toClient (+) Posted(eff.sent)
            /\ served' = IF p.msg.source = ClientWin
                          THEN [served EXCEPT ![p.msg.data.id] = out] ELSE served
            /\ ev' = [op |-> "settle", msg |-> p.msg, outcome |-> out, invoked |-> <<>>,
                      sent |-> eff.sent, escaped |-> eff.escaped, hook |-> 0]
            /\ UNCHANGED <<heap, srv, hookCount, toServer, cliVars>>

-----------------------------------------------------------------------------
(* RPC.Client: the handshake. *)

Conns == {1, 2}

Status(m) == IF "status" \in DOMAIN m.data THEN m.data.status ELSE ""

\* lines 16-19
ListenerAccepts(c, m) ==
    /\ m.source = TargetWin
    /\ Status(m) = "OK"
    /\ m.data.interfaceName = SvcName
    /\ (conn[c].origin = Wildcard \/ m.origin = conn[c].origin)

\* the listeners window.addEventListener('message', ...) has added: the
\* interfaceListener of a connector, line 28, and the _receive of its proxy,
\* line 76
HandshakeListener(c) == [kind |-> "handshake", conn |-> c]
ProxyListener(c) == [kind |-> "proxy", conn |-> c]
NoListener == [kind |-> "none", conn |-> 0]

HandshakeRequest ==
    [source |-> ClientWin, origin |-> ClientOrigin,
     data |-> [command |-> Handshake, interfaceName |-> SvcName, args |-> Undef, id |-> 0]]

\* RPC.Client(targetWindow, interfaceName, targetOrigin), lines 11-52
Connect(c, origin) ==
    /\ CallerTurn
    /\ conn[c].state = "idle"
    /\ conn' = [conn EXCEPT ![c] = [state |-> "pending", origin |-> origin,
                                    connected |-> FALSE, listening |-> TRUE,
                                    connectTimer |-> TRUE, timeoutTimer |-> "armed",
                                    sends |-> 0]]
    /\ listeners' = Append(listeners, HandshakeListener(c))
    /\ ev' = [op |-> "connect", conn |-> c]
    /\ UNCHANGED <<srvVars, chanVars, proxy, waiting, calls, issued, dispatch>>

\* reject() and resolve() of a promise act only while it is pending
Settled(state, to) == IF state = "pending" THEN to ELSE state

\* clearTimeout(timeoutTimer), line 39
ClearTimeoutTimer(t) == IF t = "armed" THEN "cleared" ELSE t

\* tryToConnect without try/catch: a failing postMessage throws out of the
\* callback before the next retry is scheduled
TryToConnectUncaught(c, sent) ==
    /\ Quiet
    /\ conn[c].connectTimer
    /\ IF conn[c].connected
       THEN /\ sent
            /\ conn' = [conn EXCEPT ![c].timeoutTimer = ClearTimeoutTimer(@),
                                    ![c].connectTimer = FALSE]
            /\ UNCHANGED toServer
       ELSE /\ conn[c].sends < MaxSends
            /\ sent => BagCardinality(toServer) < MaxInFlight
            /\ conn' = [conn EXCEPT ![c].sends = @ + 1, ![c].connectTimer = sent]
            /\ toServer' = IF sent THEN toServer (+) SetToBag({HandshakeRequest})
                           ELSE toServer
    /\ ev' = [op |-> "try", conn |-> c, posted |-> sent /\ ~conn[c].connected]
    /\ UNCHANGED <<srvVars, toClient, proxy, waiting, calls, issued, listeners, dispatch>>

\* tryToConnect without its test of connected
TryToConnectWhenConnected(c, sent) ==
    /\ Quiet
    /\ conn[c].connectTimer
    /\ conn[c].sends < MaxSends
    /\ sent => BagCardinality(toServer) < MaxInFlight
    /\ conn' = [conn EXCEPT ![c].sends = @ + 1, ![c].connectTimer = TRUE]
    /\ toServer' = IF sent THEN toServer (+) SetToBag({HandshakeRequest}) ELSE toServer
    /\ ev' = [op |-> "try", conn |-> c, posted |-> sent]
    /\ UNCHANGED <<srvVars, toClient, proxy, waiting, calls, issued, listeners, dispatch>>

\* tryToConnect, lines 37-49; sent tells whether postMessage went through
TryToConnect(c, sent) ==
    /\ Quiet
    /\ conn[c].connectTimer
    /\ IF conn[c].connected
       THEN /\ sent
            /\ conn' = [conn EXCEPT ![c].timeoutTimer = ClearTimeoutTimer(@),
                                    ![c].connectTimer = FALSE]
            /\ UNCHANGED toServer
       ELSE /\ conn[c].sends < MaxSends
            /\ sent => BagCardinality(toServer) < MaxInFlight
            /\ conn' = [conn EXCEPT ![c].sends = @ + 1, ![c].connectTimer = TRUE]
            /\ toServer' = IF sent THEN toServer (+) SetToBag({HandshakeRequest})
                           ELSE toServer
    /\ ev' = [op |-> "try", conn |-> c, posted |-> sent /\ ~conn[c].connected]
    /\ UNCHANGED <<srvVars, toClient, proxy, waiting, calls, issued, listeners, dispatch>>

\* the timeout callback without its clearTimeout(connectTimer)
TimeoutFireKeepsRetrying(c) ==
    /\ Quiet
    /\ conn[c].timeoutTimer = "armed"
    /\ conn' = [conn EXCEPT ![c].state = Settled(@, "rejected"),
                            ![c].timeoutTimer = "fired"]
    /\ ev' = [op |-> "timeout", conn |-> c]
    /\ UNCHANGED <<srvVars, chanVars, proxy, waiting, calls, issued, listeners, dispatch>>

\* the timeout callback, lines 32-35
TimeoutFire(c) ==
    /\ Quiet
    /\ conn[c].timeoutTimer = "armed"
    /\ conn' = [conn EXCEPT ![c].state = Settled(@, "rejected"),
                            ![c].connectTimer = FALSE,
                            ![c].timeoutTimer = "fired"]
    /\ ev' = [op |-> "timeout", conn |-> c]
    /\ UNCHANGED <<srvVars, chanVars, proxy, waiting, calls, issued, listeners, dispatch>>

-----------------------------------------------------------------------------
(* RPC._Client: the proxy. *)

\* the characters a string gives when it is iterated
Chars(s) == {SubSeq(s, i, i) : i \in 1..Len(s)}

\* for (const functionName of functionNames), lines 129-133
Iterable(v) == v.k \in {"names", "array", "string"}
Stubs(v) ==
    CASE v.k = "names" -> {v.names[i] : i \in DOMAIN v.names}
      [] v.k = "array" -> {ToStr(v.items[i]) : i \in DOMAIN v.items}
      [] v.k = "string" -> Chars(v.s)
      [] OTHER -> {}

\* the filter of _receive without its source clause
ProxyAcceptsAnySource(c, m) ==
    /\ Status(m) # ""
    /\ m.data.interfaceName = SvcName
    /\ (proxy[c].origin = Wildcard \/ m.origin = proxy[c].origin)

\* the filter of _receive without its origin clause
ProxyAcceptsAnyOrigin(c, m) ==
    /\ m.source = TargetWin
    /\ Status(m) # ""
    /\ m.data.interfaceName = SvcName

\* lines 87-90
ProxyAccepts(c, m) ==
    /\ m.source = TargetWin
    /\ Status(m) # ""
    /\ m.data.interfaceName = SvcName
    /\ (proxy[c].origin = Wildcard \/ m.origin = proxy[c].origin)

\* lines 102-105
ErrorFrom(result) ==
    [k |-> "Error",
     message |-> Str(IF Get(result, "message").k = "undefined" THEN ""
                     ELSE ToStr(Get(result, "message"))),
     stack |-> Get(result, "stack"),
     code |-> Get(result, "code")]

\* the promises _invoke has returned and that are not settled: a slot holds
\* one; a settled promise leaves its slot
Slots == 1..MaxCalls
Free == [state |-> "free", owner |-> 0, id |-> 0]
Pending(c, id) == [state |-> "pending", owner |-> c, id |-> id]
FreeSlots == {t \in Slots : calls[t].state = "free"}

\* lines 99-107: what a reply does to the promise of the entry it found:
\* "pending" where the handler leaves it unsettled
Settle(m) ==
    CASE Status(m) = "OK" -> [state |-> "resolved", value |-> m.data.result]
      [] Status(m) = "error" /\ ~Nullish(m.data.result) ->
            [state |-> "rejected", value |-> ErrorFrom(m.data.result)]
      [] OTHER -> [state |-> "pending", value |-> Undef]

\* line 92
Callback(c, m) == IF m.data.id \in DOMAIN waiting[c] THEN {waiting[c][m.data.id]} ELSE {}

Without(w, id) == [i \in DOMAIN w \ {id} |-> w[i]]

\* line 120: this._waiting.set(obj.id, { resolve, error })
Register(w, id, t) == (id :> t) @@ w

\* what the listener l does with the event m: the connector whose handshake
\* ends, the proxy that takes the message, the call it finds; a listener
\* that was removed since the dispatch began is not called
Connecting(l, m) ==
    IF l.kind = "handshake" /\ conn[l.conn].listening /\ ListenerAccepts(l.conn, m)
    THEN {l.conn} ELSE {}
Receiving(l, m) ==
    IF l.kind = "proxy" /\ proxy[l.conn].subscribed /\ ProxyAccepts(l.conn, m)
    THEN {l.conn} ELSE {}
Hit(l, m) == UNION {Callback(c, m) : c \in Receiving(l, m)}

\* the listener settles a promise: connect(), line 24, or a call, lines 99-107
Woke(l, m) ==
    \/ \E c \in Connecting(l, m) : conn[c].state = "pending" /\ Iterable(m.data.result)
    \/ Hit(l, m) # {} /\ Settle(m).state # "pending"

Remove(list, l) == LET Other(x) == x # l IN SelectSeq(list, Other)

\* one listener of the client window takes the message event m, lines 15-26
\* and 83-109; rest are the listeners that take it after this one
Listener(l, m, op, rest) ==
    /\ conn' = [c \in Conns |->
                  IF c \in Connecting(l, m)
                  THEN [conn[c] EXCEPT !.listening = FALSE, !.connected = TRUE,
                                       !.state = IF Iterable(m.data.result)
                                                 THEN Settled(@, "resolved") ELSE @]
                  ELSE conn[c]]
    /\ proxy' = [c \in Conns |->
                  IF c \in Connecting(l, m) /\ Iterable(m.data.result)
                  THEN [built |-> TRUE, subscribed |-> TRUE, origin |-> conn[c].origin,
                        methods |-> m.data.result]
                  ELSE proxy[c]]
    /\ listeners' = IF Connecting(l, m) = {} THEN listeners
                    ELSE IF Iterable(m.data.result)
                         THEN Append(Remove(listeners, l), ProxyListener(l.conn))
                         ELSE Remove(listeners, l)
    /\ waiting' = [c \in Conns |->
                  IF c \in Receiving(l, m) THEN Without(waiting[c], m.data.id)
                  ELSE waiting[c]]
    /\ calls' = [t \in Slots |->
                  IF t \in Hit(l, m) /\ Settle(m).state # "pending" THEN Free ELSE calls[t]]
    /\ dispatch' = IF rest = <<>> THEN Idle
                   ELSE [msg |-> m, todo |-> rest, woke |-> Woke(l, m)]
    /\ ev' = [op |-> op, msg |-> m, ran |-> l, connecting |-> Connecting(l, m),
              receiving |-> Receiving(l, m), hit |-> Hit(l, m),
              served |-> served[m.data.id],
              settled |-> {[slot |-> t, owner |-> calls[t].owner, id |-> calls[t].id,
                            state |-> Settle(m).state, value |-> Settle(m).value] :
                                t \in {u \in Hit(l, m) : Settle(m).state # "pending"}}]
    /\ served' = IF rest = <<>> THEN [served EXCEPT ![m.data.id] = NoOutcome] ELSE served
    /\ UNCHANGED <<heap, srv, async, hookCount, toServer, issued>>

\* a message event in the client window: the dispatch takes the listeners
\* there are when it begins and calls the first of them
ClientOnMessage(m, op) ==
    /\ Quiet
    /\ IF listeners = <<>> THEN Listener(NoListener, m, op, <<>>)
       ELSE Listener(Head(listeners), m, op, Tail(listeners))

\* the dispatch calls the next listener of the event; a window with one
\* connector has one listener at a time, the interfaceListener or the
\* proxy's _receive, so that its dispatches end in the step that begins them
NextListener ==
    /\ ~Quiet
    /\ Listener(Head(dispatch.todo), dispatch.msg, "recv", Tail(dispatch.todo))
    /\ UNCHANGED toClient

DeliverToClient ==
    \E m \in BagToSet(toClient) :
        /\ ClientOnMessage(m, "recv")
        /\ toClient' = toClient (-) SetToBag({m})

\* the target window, or any other, may post any message to the client window
EnvList == Names(<<"ping", Handshake>>)
EnvError == Obj(Str("boom"), Str("trace"), Undef)
EnvPayloads ==
    {[status |-> "OK", result |-> EnvList], [status |-> "OK", result |-> Undef],
     [status |-> "error", result |-> EnvError], [status |-> "error", result |-> Undef],
     [status |-> "busy", result |-> EnvList], [status |-> "", result |-> EnvList]}
EnvEvent(source, origin, p, name, id) ==
    [source |-> source, origin |-> origin,
     data |-> [status |-> p.status, result |-> p.result, interfaceName |-> name, id |-> id]]
EnvReplies == {p \in EnvPayloads : p.status \in {"OK", "error"} /\ ~Nullish(p.result)}
EnvEvents ==
    {EnvEvent(TargetWin, TargetOriginX, p, SvcName, i) : p \in EnvPayloads, i \in Ids}
    \cup {EnvEvent(TargetWin, EvilOrigin, p, SvcName, i) : p \in EnvReplies, i \in Ids}
    \cup {EnvEvent(EvilWin, TargetOriginX, p, SvcName, i) : p \in EnvReplies, i \in Ids}
    \cup {EnvEvent(TargetWin, TargetOriginX, p, OtherName, i) : p \in EnvReplies, i \in Ids}

EnvPost ==
    \E m \in EnvEvents :
        /\ ClientOnMessage(m, "recv")
        /\ UNCHANGED toClient

\* Random.getRandomId(): the generator is a library outside these sources;
\* by its contract, nextId() -> unique, it returns an id it has not returned
\* before
RandomIds == Ids \ issued

\* _invoke with the id of the handshake request, { ..., id: 0 } as at line 44,
\* in place of the generated one
InvokeWithHandshakeId(c, command, args, id) ==
    /\ CallerTurn
    /\ proxy[c].built
    /\ command \in Stubs(proxy[c].methods)
    /\ FreeSlots # {}
    /\ BagCardinality(toServer) < MaxInFlight
    /\ LET t == CHOOSE u \in FreeSlots : \A w \in FreeSlots : u <= w
       IN  /\ calls' = [calls EXCEPT ![t] = Pending(c, 0)]
           /\ waiting' = [waiting EXCEPT ![c] = Register(@, 0, t)]
    /\ toServer' = toServer (+) SetToBag({[source |-> ClientWin, origin |-> ClientOrigin,
                        data |-> [command |-> command, interfaceName |-> SvcName,
                                  args |-> args, id |-> 0]]})
    /\ issued' = issued \cup {id}
    /\ ev' = [op |-> "invoke", conn |-> c, id |-> 0]
    /\ UNCHANGED <<srvVars, toClient, conn, proxy, listeners, dispatch>>

\* a stub, lines 130-132, and _invoke, lines 117-126; id is the id the
\* generator returns
Invoke(c, command, args, id) ==
    /\ CallerTurn
    /\ proxy[c].built
    /\ command \in Stubs(proxy[c].methods)
    /\ FreeSlots # {}
    /\ BagCardinality(toServer) < MaxInFlight
    /\ LET t == CHOOSE u \in FreeSlots : \A w \in FreeSlots : u <= w
       IN  /\ calls' = [calls EXCEPT ![t] = Pending(c, id)]
           /\ waiting' = [waiting EXCEPT ![c] = Register(@, id, t)]
    /\ toServer' = toServer (+) SetToBag({[source |-> ClientWin, origin |-> ClientOrigin,
                        data |-> [command |-> command, interfaceName |-> SvcName,
                                  args |-> args, id |-> id]]})
    /\ issued' = issued \cup {id}
    /\ ev' = [op |-> "invoke", conn |-> c, id |-> id]
    /\ UNCHANGED <<srvVars, toClient, conn, proxy, listeners, dispatch>>

\* Client.close passing a fresh this._receive.bind(this), as Server.close does
CloseWithFreshBind(c) ==
    /\ CallerTurn
    /\ proxy[c].built
    /\ proxy[c].subscribed
    /\ proxy' = [proxy EXCEPT ![c].subscribed = RemoveListener(@, FALSE)]
    /\ listeners' = IF proxy'[c].subscribed THEN listeners
                    ELSE Remove(listeners, ProxyListener(c))
    /\ ev' = [op |-> "close", conn |-> c]
    /\ UNCHANGED <<srvVars, chanVars, conn, waiting, calls, issued, dispatch>>

\* Client.close, lines 79-81: this._receive is the function that was added
Close(c) ==
    /\ CallerTurn
    /\ proxy[c].built
    /\ proxy[c].subscribed
    /\ proxy' = [proxy EXCEPT ![c].subscribed = RemoveListener(@, TRUE)]
    /\ listeners' = IF proxy'[c].subscribed THEN listeners
                    ELSE Remove(listeners, ProxyListener(c))
    /\ ev' = [op |-> "close", conn |-> c]
    /\ UNCHANGED <<srvVars, chanVars, conn, waiting, calls, issued, dispatch>>

-----------------------------------------------------------------------------
(* The specifications. *)

\* the state before any call of RPC.Server or RPC.Client; the caller of
\* RPC.Server holds the array it will pass as rpcInterface
InitWith(lists) ==
    /\ heap \in {[r \in Refs |-> IF r = UserRef THEN l ELSE <<>>] : l \in lists}
    /\ srv = [s \in Servers |-> [state |-> "none", ref |-> UserRef, ac |-> FALSE,
                                 listening |-> FALSE, closeCalled |-> FALSE,
                                 given |-> <<>>]]
    /\ async = EmptyBag
    /\ hookCount = 0
    /\ toServer = EmptyBag
    /\ toClient = EmptyBag
    /\ conn = [c \in Conns |-> [state |-> "idle", origin |-> Wildcard, connected |-> FALSE,
                                listening |-> FALSE, connectTimer |-> FALSE,
                                timeoutTimer |-> "none", sends |-> 0]]
    /\ proxy = [c \in Conns |-> [built |-> FALSE, subscribed |-> FALSE, origin |-> Wildcard,
                                 methods |-> Undef]]
    /\ waiting = [c \in Conns |-> <<>>]
    /\ calls = [t \in Slots |-> Free]
    /\ issued = {}
    /\ listeners = <<>>
    /\ dispatch = Idle
    /\ served = [i \in Ids |-> NoOutcome]
    /\ ev = [op |-> "init"]

Init == InitWith({<<"ping", "ghost">>})

\* RPC.Server called twice, for any array the caller may pass
NextBuild ==
    \E s \in Servers, explicit \in BOOLEAN, ac \in BOOLEAN : BuildServer(s, explicit, ac)

SpecBuild == InitWith(ExplicitLists) /\ [][NextBuild]_vars

\* the dispatcher alone, with requests from any window
NextServer ==
    \/ \E explicit \in BOOLEAN, ac \in BOOLEAN : BuildServer(Dispatcher, explicit, ac)
    \/ EnvRequest
    \/ AsyncSettle

SpecServer == Init /\ [][NextServer]_vars

\* the dispatcher alone, its owner calling close() at some point
NextClose ==
    \/ \E explicit \in BOOLEAN, ac \in BOOLEAN : BuildServer(Dispatcher, explicit, ac)
    \/ SrvClose(Dispatcher)
    \/ EnvRequest
    \/ AsyncSettle

SpecClose == Init /\ [][NextClose]_vars

\* the handshake of one connector, with messages from any window
NextConnect ==
    \/ \E origin \in {Wildcard, TargetOriginX} : Connect(1, origin)
    \/ \E sent \in BOOLEAN : TryToConnect(1, sent)
    \/ TimeoutFire(1)
    \/ EnvPost
    \/ DeliverRequest

SpecConnect == Init /\ [][NextConnect]_vars

\* one connector pinned to https://x and its proxy before a timer of the
\* handshake fires, with messages from any window
NextProxy ==
    \/ Connect(1, TargetOriginX)
    \/ EnvPost
    \/ \E command \in {"ping"}, args \in ArgLists \ {Undef}, id \in RandomIds :
            Invoke(1, command, args, id)
    \/ Close(1)
    \/ DeliverRequest

SpecProxy == Init /\ [][NextProxy]_vars

\* two connectors of the client window for the same target window and
\* interface name, and the dispatcher; both proxies make calls
NextShared ==
    \/ BuildServer(Dispatcher, FALSE, FALSE)
    \/ \E c \in Conns : Connect(c, Wildcard)
    \/ \E c \in Conns : TryToConnect(c, TRUE)
    \/ DeliverRequest
    \/ DeliverToClient
    \/ NextListener
    \/ \E c \in Conns, args \in ArgLists \ {Undef}, id \in RandomIds :
            Invoke(c, "ping", args, id)

SpecShared == Init /\ [][NextShared]_vars

\* the connector, the proxy and the dispatcher over the channel
Next ==
    \/ \E explicit \in BOOLEAN, ac \in BOOLEAN : BuildServer(Dispatcher, explicit, ac)
    \/ \E origin \in {Wildcard, TargetOriginX} : Connect(1, origin)
    \/ \E sent \in BOOLEAN : TryToConnect(1, sent)
    \/ TimeoutFire(1)
    \/ DeliverRequest
    \/ AsyncSettle
    \/ DeliverToClient
    \/ \E command \in {"ping", "ghost"}, args \in ArgLists \ {Undef}, id \in RandomIds :
            Invoke(1, command, args, id)
    \/ Close(1)

Spec == Init /\ [][Next]_vars

-----------------------------------------------------------------------------
(* The dispatcher's claims. *)

GivenArgs(m) == IF m.data.args.k = "array" THEN m.data.args.items ELSE <<>>
Count(list, x) == Cardinality({i \in DOMAIN list : list[i] = x})
NotHandshake(x) == x # Handshake
Others(list) == SelectSeq(list, NotHandshake)

\* C4: a request that names the dispatcher's interface and whose command is
\* not in the whitelist gets exactly one reply, of status error and message
\* 'Unknown command', and no method of the service is called for it.
C4_UnknownCommand ==
    (/\ ev.op = "request"
     /\ srv[Dispatcher].listening
     /\ ev.msg.data.interfaceName = SvcName
     /\ ~Includes(heap[srv[Dispatcher].ref], ev.msg.data.command))
    => /\ Len(ev.sent) = 1
       /\ ev.sent[1].data.status = "error"
       /\ ev.sent[1].data.result.message = Str("Unknown command")
       /\ ev.invoked = <<>>
       /\ ~ev.escaped

\* a request for a method the service has and the explicit whitelist lacks was refused
C4_Witness ==
    /\ ev.op = "request"
    /\ srv[Dispatcher].listening
    /\ ev.msg.data.interfaceName = SvcName
    /\ ev.msg.data.command = "secret"
    /\ ~Includes(heap[srv[Dispatcher].ref], "secret")
    /\ Len(ev.sent) = 1
    /\ ev.sent[1].data.status = "error"

\* C5: a message whose interfaceName is not the dispatcher's own name makes
\* it send no reply, call no method (the connection hook included) and change
\* nothing of its state.
C5_ForeignNameIgnored ==
    [][(ev'.op = "request" /\ ev'.msg.data.interfaceName # SvcName)
        => /\ ev'.sent = <<>>
           /\ ev'.invoked = <<>>
           /\ ev'.hook = 0
           /\ ~ev'.escaped
           /\ UNCHANGED <<heap, srv, async, hookCount, toClient>>]_vars

\* a handshake request under another interface name reached the listening dispatcher
C5_Witness ==
    /\ ev.op = "request"
    /\ srv[Dispatcher].listening
    /\ ev.msg.data.interfaceName = OtherName
    /\ ev.msg.data.command = Handshake
    /\ ev.sent = <<>>

\* C8: with access control, every command other than getRpcInterface is
\* called with the identity object of the message's source and origin first
\* and the request's args after it, in order; getRpcInterface never gets the
\* identity object; without access control no call gets it.
C8_AccessControlArgs ==
    (ev.op = "request" /\ Len(ev.invoked) = 1)
    => LET m == ev.msg
           call == ev.invoked[1]
       IN  /\ call.command = m.data.command
           /\ call.args = IF srv[Dispatcher].ac /\ m.data.command # Handshake
                          THEN <<Identity(m.source, m.origin)>> \o GivenArgs(m)
                          ELSE GivenArgs(m)

\* under access control ping was called with the identity and the two given arguments
C8_Witness ==
    /\ ev.op = "request"
    /\ srv[Dispatcher].ac
    /\ Len(ev.invoked) = 1
    /\ ev.invoked[1].command = "ping"
    /\ ev.invoked[1].args =
            <<Identity(ev.msg.source, ev.msg.origin), Str("a"), Str("b")>>

\* C9: the whitelist of every dispatcher holds the handshake name exactly
\* once, and its other entries are the given ones in order.
C9_HandshakeOnce ==
    \A s \in Servers :
        srv[s].state = "open"
        => /\ Count(Whitelist(s), Handshake) = 1
           /\ Others(Whitelist(s)) = Others(srv[s].given)

\* C10: every failure of the dispatcher on a request that names its
\* interface (an unknown command, a whitelisted name the service has no
\* method for, a throw, a rejected promise) ends in one reply of status error.
C10_EveryFailureReplied ==
    (\/ /\ ev.op = "request"
        /\ srv[Dispatcher].listening
        /\ ev.msg.data.interfaceName = SvcName
        /\ \/ ~Includes(heap[srv[Dispatcher].ref], ev.msg.data.command)
           \/ ev.msg.data.command \notin ClassMethods \cup {Handshake}
           \/ ev.outcome.kind = "throw"
     \/ ev.op = "settle" /\ ev.outcome.kind = "reject")
    => /\ Len(ev.sent) = 1
       /\ ev.sent[1].data.status = "error"
       /\ ~ev.escaped

-----------------------------------------------------------------------------
(* The client's claims. *)

\* C1: a reply of status OK or error that a proxy's receive filter passes
\* settles every outstanding call of that proxy whose request id is the
\* reply's id, resolving on OK and rejecting on error, and settles no other
\* call.
C1_RepliesSettleById ==
    (ev.op = "recv" /\ Status(ev.msg) \in {"OK", "error"}) =>
        /\ \A s \in ev.settled :
              /\ s.owner \in ev.receiving
              /\ s.id = ev.msg.data.id
              /\ s.state = IF Status(ev.msg) = "OK" THEN "resolved" ELSE "rejected"
        /\ \A c \in ev.receiving : \A t \in Slots :
              ~(calls[t].state = "pending" /\ calls[t].owner = c
                    /\ calls[t].id = ev.msg.data.id)

\* C2: a timeout that fires before any matching handshake reply rejects
\* connect(), and from the rejection on the promise stays rejected, the retry
\* timer is not armed, tryToConnect does not run and no handshake request is
\* added to the channel.
C2_TimeoutStopsRetry ==
    [][\A c \in Conns :
          /\ (ev'.op = "timeout" /\ ev'.conn = c /\ ~conn[c].connected)
                => conn'[c].state = "rejected"
          /\ conn[c].state = "rejected" =>
                /\ conn'[c].state = "rejected"
                /\ ~conn'[c].connectTimer
                /\ ~(ev'.op = "try" /\ ev'.conn = c)
                /\ CopiesIn(HandshakeRequest, toServer')
                        <= CopiesIn(HandshakeRequest, toServer)]_vars

\* a message reaches the client window after connect() was rejected by the
\* timeout, handshake requests having been sent
C2_Witness ==
    /\ ev.op = "recv"
    /\ conn[1].state = "rejected"
    /\ conn[1].timeoutTimer = "fired"
    /\ conn[1].sends > 0

\* C3: with a target origin other than the wildcard, a message of another
\* origin changes neither the handshake state nor the proxy, the pending
\* table or the calls of that connector, whatever its source, interface name
\* and id.
C3_OriginPinned ==
    [][\A c \in Conns :
          (ev'.op = "recv" /\ conn[c].origin # Wildcard /\ ev'.msg.origin # conn[c].origin)
            => /\ conn'[c] = conn[c]
               /\ proxy'[c] = proxy[c]
               /\ waiting'[c] = waiting[c]
               /\ \A t \in Slots : calls[t].owner = c => calls'[t] = calls[t]]_vars

\* a proxy pinned to https://x was handed an OK reply of origin https://evil
\* from the target window under its interface name, with the id of a call
\* that is still in the table and pending
C3_Witness ==
    /\ ev.op = "recv"
    /\ proxy[1].subscribed
    /\ proxy[1].origin = TargetOriginX
    /\ ev.msg.origin = EvilOrigin
    /\ ev.msg.source = TargetWin
    /\ ev.msg.data.interfaceName = SvcName
    /\ Status(ev.msg) = "OK"
    /\ ev.msg.data.id \in DOMAIN waiting[1]
    /\ calls[waiting[1][ev.msg.data.id]] = Pending(1, ev.msg.data.id)

\* C6: the id under which _invoke registers a call is neither in the
\* pending table of its proxy nor the id of a call of that proxy that is
\* still pending, and the entries the table had stay as they were.
C6_FreshId ==
    [][ev'.op = "invoke" =>
        LET c == ev'.conn
        IN  /\ ev'.id \notin DOMAIN waiting[c]
            /\ \A t \in Slots :
                  ~(calls[t].state = "pending" /\ calls[t].owner = c
                        /\ calls[t].id = ev'.id)
            /\ \A i \in DOMAIN waiting[c] :
                  i \in DOMAIN waiting'[c] /\ waiting'[c][i] = waiting[c][i]]_vars

\* a second call was registered while the first is in the table and pending
C6_Witness ==
    /\ ev.op = "invoke"
    /\ Cardinality(DOMAIN waiting[ev.conn]) = 2
    /\ \A i \in DOMAIN waiting[ev.conn] :
          calls[waiting[ev.conn][i]] = Pending(ev.conn, i)

\* C7: when a reply settles a call, a value the service method returned or
\* resolved with is the value the call resolves with, and an Error the method
\* threw or rejected with rejects the call with an error of the same message.
C7_RoundTrip ==
    (ev.op = "recv" /\ ev.hit # {}) =>
        /\ ev.served.kind \in {"return", "resolve"} =>
              \E s \in ev.settled : s.state = "resolved" /\ s.value = ev.served.v
        /\ (ev.served.kind \in {"throw", "reject"} /\ ev.served.v.k = "Error") =>
              \E s \in ev.settled :
                  s.state = "rejected" /\ s.value.message = ev.served.v.message

\* a message from the proxy's target window, with a truthy status, under its
\* interface name and of an origin the proxy admits
PassesFilter(c, m) ==
    /\ m.source = TargetWin
    /\ Status(m) \in {"OK", "error", "busy"}
    /\ m.data.interfaceName = SvcName
    /\ proxy[c].origin \in {Wildcard, m.origin}

\* C11: an id leaves the pending table of a proxy only in a step that hands
\* the subscribed proxy a message that passes its filter and carries that
\* id; a message whose id has no entry leaves the table and the calls of the
\* proxy as they are.
C11_RemovedOnlyByReply ==
    [][\A c \in Conns :
          /\ \A id \in DOMAIN waiting[c] :
                id \notin DOMAIN waiting'[c]
                => /\ ev'.op = "recv"
                   /\ proxy[c].subscribed
                   /\ PassesFilter(c, ev'.msg)
                   /\ ev'.msg.data.id = id
          /\ (ev'.op = "recv" /\ ev'.msg.data.id \notin DOMAIN waiting[c])
                => /\ waiting'[c] = waiting[c]
                   /\ \A t \in Slots : calls[t].owner = c => calls'[t] = calls[t]]_vars

\* the subscribed proxy took a reply whose id has no entry while another
\* call is in the table
C11_Witness ==
    /\ ev.op = "recv"
    /\ proxy[1].subscribed
    /\ PassesFilter(1, ev.msg)
    /\ ev.hit = {}
    /\ DOMAIN waiting[1] # {}
    /\ ev.msg.data.id \notin DOMAIN waiting[1]

\* a status-OK message from the connector's target window, under its
\* interface name and of an origin the connector admits
Matching(c, m) ==
    /\ m.source = TargetWin
    /\ Status(m) = "OK"
    /\ m.data.interfaceName = SvcName
    /\ conn[c].origin \in {Wildcard, m.origin}

\* C12: the first matching reply whose result is a sequence of names resolves
\* the pending connect() with a proxy whose whitelist is that result; once
\* resolved, connect() stays resolved, its listener is gone, no handshake
\* request is posted and the proxy is not built again.
C12_ResolvesOnce ==
    [][\A c \in Conns :
          /\ (/\ ev'.op = "recv"
              /\ ev'.ran = [kind |-> "handshake", conn |-> c]
              /\ conn[c].listening
              /\ conn[c].state = "pending"
              /\ Matching(c, ev'.msg)
              /\ ev'.msg.data.result.k = "names")
                => /\ conn'[c].state = "resolved"
                   /\ ~proxy[c].built
                   /\ proxy'[c].built
                   /\ proxy'[c].methods = ev'.msg.data.result
          /\ conn[c].state = "resolved"
                => /\ conn'[c].state = "resolved"
                   /\ ~conn[c].listening /\ ~conn'[c].listening
                   /\ proxy[c].built
                   /\ proxy'[c].methods = proxy[c].methods
                   /\ (ev'.op = "try" /\ ev'.conn = c) => ~ev'.posted
                   /\ CopiesIn(HandshakeRequest, toServer')
                        <= CopiesIn(HandshakeRequest, toServer)]_vars

\* after connect() resolved, the timeout having fired or been cleared, another
\* matching reply reached the client window
C12_Witness ==
    /\ ev.op = "recv"
    /\ Matching(1, ev.msg)
    /\ ev.msg.data.result.k = "names"
    /\ ev.connecting = {}
    /\ conn[1].state = "resolved"
    /\ conn[1].timeoutTimer \in {"fired", "cleared"}
    /\ proxy[1].built

-----------------------------------------------------------------------------
(* More claims of the dispatcher. *)

\* C13: every reply is posted to the source and the origin of the request it
\* answers, with that request's id and the dispatcher's interface name; a
\* request answered by a promise is kept with its source, origin and id until
\* the promise settles.
C13_ReplyAddressed ==
    /\ ev.op \in {"request", "settle"} =>
          \A i \in DOMAIN ev.sent :
              /\ ev.sent[i].to = ev.msg.source
              /\ ev.sent[i].toOrigin = ev.msg.origin
              /\ ev.sent[i].data.id = ev.msg.data.id
              /\ ev.sent[i].data.interfaceName = SvcName
    /\ (ev.op = "request" /\ ev.outcome.kind = "promise") =>
          \E p \in BagToSet(async) :
              /\ p.msg.source = ev.msg.source
              /\ p.msg.origin = ev.msg.origin
              /\ p.msg.data.id = ev.msg.data.id

\* a promise settled and its reply went to the third window under id 1
C13_Witness ==
    /\ ev.op = "settle"
    /\ Len(ev.sent) = 1
    /\ ev.sent[1].to = ThirdWin
    /\ ev.sent[1].toOrigin = ThirdOrigin
    /\ ev.sent[1].data.id = 1

-----------------------------------------------------------------------------
(* More claims of the client. *)

\* C14: close() leaves the pending table and every call as they are and ends
\* the subscription; from then on the proxy stays unsubscribed and no message
\* event changes its table or its calls.
C14_CloseReleases ==
    [][\A c \in Conns :
          /\ (ev'.op = "close" /\ ev'.conn = c)
                => /\ ~proxy'[c].subscribed
                   /\ waiting' = waiting
                   /\ calls' = calls
          /\ (proxy[c].built /\ ~proxy[c].subscribed)
                => /\ ~proxy'[c].subscribed
                   /\ ev'.op = "recv"
                        => /\ waiting'[c] = waiting[c]
                           /\ \A t \in Slots : calls[t].owner = c => calls'[t] = calls[t]]_vars

\* the closed proxy's window got a reply that passes the filter and carries
\* the id of a call which is still in the table and pending
C14_Witness ==
    /\ ev.op = "recv"
    /\ proxy[1].built
    /\ ~proxy[1].subscribed
    /\ PassesFilter(1, ev.msg)
    /\ ev.msg.data.id \in DOMAIN waiting[1]
    /\ calls[waiting[1][ev.msg.data.id]] = Pending(1, ev.msg.data.id)

\* C15: a run of tryToConnect whose postMessage fails leaves connect()
\* pending, its listener and its timeout timer as they were and the retry
\* timer armed, and posts nothing; a pending connect() resolves on a matching
\* reply that lists names and is rejected when the timeout fires.
C15_SendFailureRetries ==
    [][\A c \in Conns :
          /\ (ev'.op = "try" /\ ev'.conn = c /\ ~conn[c].connected /\ ~ev'.posted)
                => /\ conn'[c].state = conn[c].state
                   /\ conn'[c].listening = conn[c].listening
                   /\ conn'[c].timeoutTimer = conn[c].timeoutTimer
                   /\ conn'[c].connectTimer
                   /\ toServer' = toServer
          /\ (conn[c].state = "pending" /\ conn[c].listening /\ ev'.op = "recv"
                /\ ev'.ran = [kind |-> "handshake", conn |-> c]
                /\ Matching(c, ev'.msg) /\ ev'.msg.data.result.k = "names")
                => conn'[c].state = "resolved"
          /\ (conn[c].state = "pending" /\ ev'.op = "timeout" /\ ev'.conn = c)
                => conn'[c].state = "rejected"]_vars

\* the postMessage of a retry failed: connect() is pending, listening, with
\* both timers armed
C15_Witness ==
    /\ ev.op = "try"
    /\ ~ev.posted
    /\ conn[1].sends > 1
    /\ ~conn[1].connected
    /\ conn[1].state = "pending"
    /\ conn[1].listening
    /\ conn[1].connectTimer
    /\ conn[1].timeoutTimer = "armed"

\* C16: once connect() is rejected, no proxy exists or is built for it and
\* its handshake listener is no longer subscribed.
C16_NothingAfterTimeout ==
    \A c \in Conns :
        conn[c].state = "rejected"
        => /\ ~conn[c].listening
           /\ ~proxy[c].built
           /\ ~proxy[c].subscribed

\* C18: every call whose entry a message event removes from a pending table
\* is resolved or rejected in that step.
C18_RemovedMeansSettled ==
    ev.op = "recv" => \A t \in ev.hit : \E s \in ev.settled : s.slot = t

\* C19: a request that reaches the target window after close() was called on
\* the dispatcher calls no method and gets no reply.
C19_ClosedDispatcherSilent ==
    (ev.op = "request" /\ srv[Dispatcher].closeCalled)
    => /\ ev.invoked = <<>>
       /\ ev.sent = <<>>

\* C20: when connect() has resolved, onConnected has run exactly once for it.
C20_HookOnce ==
    conn[1].state = "resolved" => hookCount = 1

\* C17: the whitelist of every proxy that was built is the whitelist of the
\* dispatcher of its interface name.
C17_WhitelistFromHandshake ==
    \A c \in Conns :
        proxy[c].built => proxy[c].methods = Names(heap[srv[Dispatcher].ref])

=============================================================================
